---- MODULE Spec2Model ----
(***************************************************************************)
(* Model of the DealScout deal enrichment pipeline:                        *)
(*   - services/ebay_lookup.py       price discovery (cache, variations,   *)
(*                                   retries, fallbacks)                   *)
(*   - services/profit_calculator.py fee and profit calculator             *)
(*   - scheduler.py                  enrichment tick and needs-review sweep*)
(*                                                                         *)
(* Text is a sequence of atoms.  An atom is an indivisible piece of a      *)
(* string: a word made of \w characters only, a size token (digits         *)
(* followed by gb/tb/inch), one punctuation character, or one space.       *)
(* Money is an integer number of cents.  An optional value is <<>> (None)  *)
(* or <<x>>.                                                               *)
(***************************************************************************)
EXTENDS Integers, Sequences, FiniteSets, TLC

None == <<>>
Some(x) == <<x>>
Val(o) == o[1]

Abs(x) == IF x < 0 THEN -x ELSE x

-----------------------------------------------------------------------------
(* Text atoms *)

WordAtoms == {"sony", "SONY", "a7", "kit", "None"}
SizeAtoms == {"64gb"}
PunctAtoms == {"-", "(", ")"}
SP == " "
Atoms == WordAtoms \cup SizeAtoms \cup PunctAtoms \cup {SP}

\* \w characters only (regex word characters)
IsWordChars(a) == a \in WordAtoms \cup SizeAtoms

RECURSIVE LStrip(_)
LStrip(s) == IF s # <<>> /\ Head(s) = SP THEN LStrip(Tail(s)) ELSE s

RECURSIVE RStrip(_)
RStrip(s) ==
    IF s # <<>> /\ s[Len(s)] = SP THEN RStrip(SubSeq(s, 1, Len(s) - 1)) ELSE s

\* str.strip()
Strip(s) == RStrip(LStrip(s))

\* str.split(): the maximal runs of non-space atoms
RECURSIVE SplitFrom(_, _, _)
SplitFrom(s, cur, acc) ==
    IF s = <<>> THEN (IF cur = <<>> THEN acc ELSE Append(acc, cur))
    ELSE IF Head(s) = SP
         THEN SplitFrom(Tail(s), <<>>, IF cur = <<>> THEN acc ELSE Append(acc, cur))
         ELSE SplitFrom(Tail(s), Append(cur, Head(s)), acc)

Split(s) == SplitFrom(s, <<>>, <<>>)

\* ' '.join(words)
RECURSIVE Join(_)
Join(ws) ==
    IF ws = <<>> THEN <<>>
    ELSE IF Len(ws) = 1 THEN ws[1]
    ELSE ws[1] \o <<SP>> \o Join(Tail(ws))

FirstWords(ws, n) == SubSeq(ws, 1, IF Len(ws) < n THEN Len(ws) ELSE n)

\* re.sub(r'\b\d+\s*(gb|tb|inch|"|\')\b', '', s): a size token is removed
\* when it has a word boundary on both sides
SizeMatchAt(s, i) ==
    /\ s[i] \in SizeAtoms
    /\ (i = 1 \/ ~IsWordChars(s[i - 1]))
    /\ (i = Len(s) \/ ~IsWordChars(s[i + 1]))

RemoveSizes(s) ==
    LET keep == {i \in 1..Len(s) : ~SizeMatchAt(s, i)}
        RECURSIVE Build(_)
        Build(i) == IF i > Len(s) THEN <<>>
                    ELSE IF i \in keep THEN <<s[i]>> \o Build(i + 1)
                    ELSE Build(i + 1)
    IN Build(1)

\* re.sub(r'\([^)]*\)', '', s): from each "(" up to the first ")" after it
RECURSIVE RemoveParens(_)
RemoveParens(s) ==
    IF s = <<>> THEN <<>>
    ELSE IF Head(s) = "(" /\ \E j \in 2..Len(s) : s[j] = ")"
         THEN LET j == CHOOSE j \in 2..Len(s) :
                           /\ s[j] = ")"
                           /\ \A m \in 2..(j - 1) : s[m] # ")"
              IN RemoveParens(SubSeq(s, j + 1, Len(s)))
         ELSE <<Head(s)>> \o RemoveParens(Tail(s))

\* re.sub(r'[^\w\s]', ' ', s)
PunctToSpace(s) == [i \in 1..Len(s) |-> IF s[i] \in PunctAtoms THEN SP ELSE s[i]]

InSeq(x, seq) == \E i \in 1..Len(seq) : seq[i] = x

generate_search_variations(search_term) ==
    LET v0 == <<search_term>>
        cleaned == Strip(RemoveSizes(search_term))
        v1 == IF cleaned # <<>> /\ cleaned # search_term
              THEN Append(v0, cleaned) ELSE v0
        words == Split(search_term)
        v2 == IF Len(words) >= 3
              THEN v1 \o <<Join(FirstWords(words, 2)), Join(FirstWords(words, 3))>>
              ELSE v1
        no_parens == Strip(RemoveParens(search_term))
        v3 == IF no_parens # <<>> /\ no_parens # search_term
              THEN Append(v2, no_parens) ELSE v2
        alphanumeric == Join(Split(PunctToSpace(search_term)))
        v4 == IF alphanumeric # <<>> /\ ~InSeq(alphanumeric, v3)
              THEN Append(v3, alphanumeric) ELSE v3
    IN v4

-----------------------------------------------------------------------------
(* services/ebay_lookup.py: price discovery *)

\* Responses of the marketplace search endpoint to one request.
\* raises: the HTTP call raised (timeout, connection error).
Item(currency, value) == [currency |-> currency, value |-> value]
Response(raises, status, items) == [raises |-> raises, status |-> status, items |-> items]

RespAccurate == Response(FALSE, 200,
    <<Item("USD", 47900), Item("USD", 48900), Item("USD", 49900),
      Item("USD", 50900), Item("USD", 51900)>>)
RespSimilar == Response(FALSE, 200,
    <<Item("USD", 30000), Item("EUR", 99900), Item("USD", 50000), Item("USD", 70000)>>)
RespLimited == Response(FALSE, 200, <<Item("USD", 41000), Item("USD", 0)>>)
RespRaises == Response(TRUE, 0, <<>>)
RespNon200 == Response(FALSE, 503, <<>>)
RespEmpty == Response(FALSE, 200, <<>>)
RespNoUsd == Response(FALSE, 200, <<Item("EUR", 12000), Item("USD", 0)>>)

GoodResponses == {RespAccurate, RespSimilar, RespLimited}
BadResponses == {RespRaises, RespNon200, RespEmpty, RespNoUsd}

RECURSIVE SeqSum(_)
SeqSum(s) == IF s = <<>> THEN 0 ELSE Head(s) + SeqSum(Tail(s))

SeqMin(s) == CHOOSE x \in {s[i] : i \in 1..Len(s)} : \A j \in 1..Len(s) : x <= s[j]
SeqMax(s) == CHOOSE x \in {s[i] : i \in 1..Len(s)} : \A j \in 1..Len(s) : x >= s[j]

IsPricedAnyCurrency(item) == item.value > 0

IsPricedUsd(item) == item.currency = "USD" /\ item.value > 0

\* One search request; a quote or None.  The averages of the responses above
\* are whole cents, so the integer division is exact.
single_ebay_search(resp, search_term) ==
    IF resp.raises THEN None
    ELSE IF resp.status # 200 THEN None
    ELSE IF resp.items = <<>> THEN None
    ELSE LET priced == SelectSeq(resp.items, IsPricedUsd)
             prices == [i \in 1..Len(priced) |-> priced[i].value]
         IN IF prices = <<>> THEN None
            ELSE Some([avg_price |-> SeqSum(prices) \div Len(prices),
                       low_price |-> SeqMin(prices),
                       high_price |-> SeqMax(prices),
                       num_sales |-> Len(prices),
                       search_term_used |-> search_term,
                       condition_note |-> FALSE,
                       broad_match |-> FALSE])

\* Outcomes of the credential exchange
AuthOutcomes == {"ok", "unconfigured", "http_error", "exception"}

get_ebay_access_token_stale(auth) == Some("token")

get_ebay_access_token(auth) == IF auth = "ok" THEN Some("token") ELSE None

ConditionFilter(condition) == IF condition = "used" THEN "USED" ELSE "NEW"

CacheKey(search_term, condition) == <<search_term, condition>>

CacheHit(cache, key) == key \in DOMAIN cache

CacheStoreDropped(cache, key, quote) == cache

CacheStore(cache, key, quote) ==
    [k \in DOMAIN cache \cup {key} |-> IF k = key THEN quote ELSE cache[k]]

Attempts == 3

BackoffFixed(attempt) == IF attempt < 2 THEN 500 ELSE 0

\* Backoff slept after a failed attempt (milliseconds)
Backoff(attempt) == IF attempt < 2 THEN 500 * (attempt + 1) ELSE 0

PlanEntry(q, filter, strategy, attempt) ==
    [q |-> q, filter |-> filter, strategy |-> strategy, attempt |-> attempt,
     backoff |-> IF strategy = 1 THEN Backoff(attempt) ELSE 0]

\* Strategy 1: each variation under the condition filter, up to 3 attempts
Strategy1(variations, filter) ==
    [n \in 1..(Attempts * Len(variations)) |->
        PlanEntry(variations[((n - 1) \div Attempts) + 1], filter, 1,
                  (n - 1) % Attempts)]

\* Strategy 2: the first two variations without the condition filter
Strategy2(variations) ==
    LET firstTwo == FirstWords(variations, 2)
    IN [n \in 1..Len(firstTwo) |-> PlanEntry(firstTwo[n], "NEW|USED", 2, 0)]

\* Strategy 3: the first two words, under the condition filter
Strategy3(search_term, filter) ==
    LET words == Split(search_term)
    IN IF Len(words) > 2
       THEN <<PlanEntry(Join(FirstWords(words, 2)), filter, 3, 0)>>
       ELSE <<>>

\* The searches get_market_value issues, in order, as long as none succeeds
SearchPlan(search_term, condition) ==
    LET variations == generate_search_variations(search_term)
        filter == ConditionFilter(condition)
    IN Strategy1(variations, filter) \o Strategy2(variations)
         \o Strategy3(search_term, filter)

TagResultPlain(quote, strategy) == quote

TagResult(quote, strategy) ==
    IF strategy = 2 THEN [quote EXCEPT !.condition_note = TRUE]
    ELSE IF strategy = 3 THEN [quote EXCEPT !.broad_match = TRUE]
    ELSE quote

\* The first search of the plan that returns a quote (0: none does); the
\* loops of get_market_value return at the first result
RECURSIVE FirstHit(_, _, _)
FirstHit(plan, oracle, i) ==
    IF i > Len(plan) THEN 0
    ELSE IF single_ebay_search(oracle[i], plan[i].q) # None THEN i
    ELSE FirstHit(plan, oracle, i + 1)

FoundStoredUntagged(cache, key, plan, oracle, first) ==
    LET found == Val(single_ebay_search(oracle[first], plan[first].q))
    IN [result |-> Some(TagResult(found, plan[first].strategy)),
        cache |-> CacheStore(cache, key, found),
        token_calls |-> 1, searches |-> SubSeq(plan, 1, first)]

\* The return of a call whose first-th search succeeded: strategy 1 stores
\* the quote in the cache, the fallback strategies tag their result and
\* store it too
Found(cache, key, plan, oracle, first) ==
    LET quote == TagResult(Val(single_ebay_search(oracle[first], plan[first].q)),
                           plan[first].strategy)
    IN [result |-> Some(quote), cache |-> CacheStore(cache, key, quote),
        token_calls |-> 1, searches |-> SubSeq(plan, 1, first)]

\* One call.  auth: outcome of the credential exchange; oracle[i]: the
\* response of the marketplace to the i-th search of this call.
get_market_value(cache, search_term, condition, auth, oracle) ==
    LET key == CacheKey(search_term, condition)
        plan == SearchPlan(search_term, condition)
        first == FirstHit(plan, oracle, 1)
    IN IF CacheHit(cache, key)
       THEN [result |-> Some(cache[key]), cache |-> cache,
             token_calls |-> 0, searches |-> <<>>]
       ELSE IF get_ebay_access_token(auth) = None
       THEN [result |-> None, cache |-> cache,
             token_calls |-> 1, searches |-> <<>>]
       ELSE IF first = 0
       THEN [result |-> None, cache |-> cache,
             token_calls |-> 1, searches |-> plan]
       ELSE Found(cache, key, plan, oracle, first)

-----------------------------------------------------------------------------
(* services/profit_calculator.py and config.py *)

\* settings.ebay_fee_percentage (percent) and settings.profit_threshold (cents)
ebay_fee_percentage == 13
profit_threshold == 3000

\* Decimal.quantize(Decimal("0.01")) with the default ROUND_HALF_EVEN:
\* n is in units of 1/unit cent, the result is in cents
QuantizeTruncating(n, unit) == n \div unit

Quantize(n, unit) ==
    LET q == n \div unit
        r == n % unit
    IN IF 2 * r < unit THEN q
       ELSE IF 2 * r > unit THEN q + 1
       ELSE IF q % 2 = 0 THEN q ELSE q + 1

\* asking_price, market_value: optional cents; fee_percentage: optional
\* whole percent; shipping_estimate: cents.  Result: optional cents.
calculate_estimated_profit(asking_price, market_value, fee_percentage, shipping_estimate) ==
    IF asking_price = None \/ market_value = None THEN None
    ELSE LET fee == IF fee_percentage = None THEN ebay_fee_percentage
                    ELSE Val(fee_percentage)
             \* hundredths of a cent
             fees == Val(market_value) * fee
             profit == 100 * (Val(market_value) - Val(asking_price) - shipping_estimate)
                         - fees
         IN Some(Quantize(profit, 100))

ExceedsThreshold(profit, min_profit) == profit > min_profit

ReachesThreshold(profit, min_profit) == profit >= min_profit

is_profitable_deal(asking_price, market_value, min_profit) ==
    LET profit == calculate_estimated_profit(asking_price, market_value, None, 0)
    IN IF profit = None THEN FALSE
       ELSE LET threshold == IF min_profit = None THEN profit_threshold
                             ELSE Val(min_profit)
            IN ReachesThreshold(Val(profit), threshold)

-----------------------------------------------------------------------------
(* services/location.py *)

LOCAL_RADIUS_MILES == 100

LocationAtoms == {"Cookeville", "cookeville", "Memphis", "memphis",
                  "Asheville", "asheville", "Atlantis", "atlantis",
                  "TN", "tn", "NC", "nc", ",", SP}

LowerAtom(a) ==
    CASE a = "Cookeville" -> "cookeville"
      [] a = "Memphis" -> "memphis"
      [] a = "Asheville" -> "asheville"
      [] a = "Atlantis" -> "atlantis"
      [] a = "TN" -> "tn"
      [] a = "NC" -> "nc"
      [] OTHER -> a

\* str.lower()
Lower(s) == [i \in 1..Len(s) |-> LowerAtom(s[i])]

\* the atoms whose text starts with the given state abbreviation
StartsWith(a, st) == a = st

\* s.split(sep)[0] for sep = ","
BeforeComma(s) ==
    IF \E i \in 1..Len(s) : s[i] = ","
    THEN LET i == CHOOSE i \in 1..Len(s) : s[i] = "," /\ \A j \in 1..(i - 1) : s[j] # ","
         IN SubSeq(s, 1, i - 1)
    ELSE s

\* s.split(" " + st)[0]: the text before the first space that is followed by st
BeforeState(s, st) ==
    LET at == {i \in 1..(Len(s) - 1) : s[i] = SP /\ StartsWith(s[i + 1], st)}
    IN IF at = {} THEN s
       ELSE SubSeq(s, 1, (CHOOSE i \in at : \A j \in at : i <= j) - 1)

\* CITY_COORDS followed by haversine_distance from home and round(): the
\* rounded miles of each gazetteer city of the model
CityMiles == (<<"cookeville">> :> 9) @@ (<<"memphis">> :> 271)
               @@ (<<"asheville">> :> 167)

\* the state each of these cities is listed under in CITY_COORDS
CityState == (<<"cookeville">> :> "tn") @@ (<<"memphis">> :> "tn")
               @@ (<<"asheville">> :> "nc")

\* the gazetteer key a location resolves to, or None
parse_location(location) ==
    IF location = None \/ Val(location) = <<>> THEN None
    ELSE LET location_lower == Strip(Lower(Val(location)))
             c0 == Strip(BeforeComma(location_lower))
             c1 == Strip(BeforeState(c0, "tn"))
             c2 == Strip(BeforeState(c1, "ky"))
             c3 == Strip(BeforeState(c2, "al"))
             city == Strip(BeforeState(c3, "ga"))
         IN IF city \in DOMAIN CityMiles THEN Some(city)
            ELSE IF location_lower \in DOMAIN CityMiles THEN Some(location_lower)
            ELSE None

calculate_distance_from_home(location) ==
    LET coords == parse_location(location)
    IN IF coords = None THEN None ELSE Some(CityMiles[Val(coords)])

WithinWhenUnresolved(distance) ==
    distance = None \/ Val(distance) <= LOCAL_RADIUS_MILES

\* distance is not None and distance <= LOCAL_RADIUS_MILES
WithinRadius(distance) ==
    distance # None /\ Val(distance) <= LOCAL_RADIUS_MILES

is_within_pickup_range(location) ==
    WithinRadius(calculate_distance_from_home(location))

-----------------------------------------------------------------------------
(* scheduler.py: enrichment tick and needs-review sweep *)

\* None of a string-valued field
Null == "null"

MaxTicks == 2
MaxBatch == 2
MaxCalls == 2

\* The raw listings the ingestion collaborator can return (prices in cents)
L1 == [title |-> "t1", asking_price |-> Some(40000), listing_url |-> "u1",
       source |-> "eBay", location |-> Some(<<"Cookeville", ",", SP, "TN">>)]
L2 == [title |-> "t2", asking_price |-> Some(45000), listing_url |-> "u2",
       source |-> "facebook", location |-> Some(<<"Atlantis">>)]
L3 == [title |-> "t3", asking_price |-> None, listing_url |-> "u2",
       source |-> "ebay", location |-> Some(<<"memphis", SP, "tn">>)]
Catalog == {L1, L2, L3}

RECURSIVE SeqsUpTo(_, _)
SeqsUpTo(S, n) ==
    IF n = 0 THEN {<<>>}
    ELSE LET shorter == SeqsUpTo(S, n - 1)
         IN shorter \cup {Append(q, x) : q \in {r \in shorter : Len(r) = n - 1}, x \in S}

Batches == SeqsUpTo(Catalog, MaxBatch)

\* The registered device tokens, in the order the query returns them
DeviceTokens == <<"d1", "d2">>
TokenSet == {DeviceTokens[i] : i \in 1..Len(DeviceTokens)}

\* What the classifier can return for a title (None: the call failed)
ClsUsed == [category |-> "electronics", subcategory |-> Some(<<"kit">>),
            brand |-> Some(<<"sony">>), model |-> Some(<<"a7", SP, "kit">>),
            condition |-> "used", condition_confidence |-> "explicit"]
ClsNew == [category |-> "electronics", subcategory |-> Some(<<"a7">>),
           brand |-> None, model |-> None,
           condition |-> "new", condition_confidence |-> "explicit"]
ClsUnknown == [category |-> "electronics", subcategory |-> None,
               brand |-> Some(<<"sony">>), model |-> Some(<<"a7">>),
               condition |-> "unknown", condition_confidence |-> "unclear"]
ClsBare == [category |-> "electronics", subcategory |-> None,
            brand |-> Some(<<"sony">>), model |-> None,
            condition |-> "used", condition_confidence |-> "unclear"]
ClassifyOutcomes == {None, Some(ClsUsed), Some(ClsNew), Some(ClsUnknown), Some(ClsBare)}

\* Python truthiness of an optional text
Truthy(o) == o # None /\ Val(o) # <<>>

\* f"{brand or ''} {model or subcategory}".strip()
BuildSearchTerm(c) ==
    LET brand == IF Truthy(c.brand) THEN Val(c.brand) ELSE <<>>
        ms == IF Truthy(c.model) THEN c.model ELSE c.subcategory
        text == IF ms = None THEN <<"None">> ELSE Val(ms)
    IN Strip(brand \o <<SP>> \o text)

\* select(Deal).where(Deal.listing_url == url) in the session of the tick:
\* the committed rows and the rows the session has flushed
ExistingCommittedDeals(committed, flushed, url) ==
    {d \in committed : d.listing_url = url}

ExistingDeals(committed, flushed, url) ==
    {d \in committed \cup flushed : d.listing_url = url}

NewDeal(raw, id) ==
    [id |-> id, title |-> raw.title, asking_price |-> raw.asking_price,
     listing_url |-> raw.listing_url, source |-> raw.source,
     location |-> raw.location,
     distance_miles |-> IF Truthy(raw.location)
                        THEN calculate_distance_from_home(raw.location) ELSE None,
     category |-> Null, subcategory |-> None, brand |-> None, model |-> None,
     condition |-> Null, condition_confidence |-> Null,
     market_value |-> None, estimated_profit |-> None, ebay_sold_data |-> None,
     price_status |-> Null, price_note |-> Null,
     local_pickup_available |-> None, status |-> "new", notified_at |-> FALSE]

ClassifiedOrFlagged(deal, classification) ==
    IF classification = None THEN [deal EXCEPT !.status = "needs_condition"]
    ELSE LET c == Val(classification)
         IN [deal EXCEPT !.category = c.category, !.subcategory = c.subcategory,
                         !.brand = c.brand, !.model = c.model,
                         !.condition = c.condition,
                         !.condition_confidence = c.condition_confidence,
                         !.status = IF c.condition = "unknown"
                                    THEN "needs_condition" ELSE @]

Classified(deal, classification) ==
    IF classification = None THEN deal
    ELSE LET c == Val(classification)
         IN [deal EXCEPT !.category = c.category, !.subcategory = c.subcategory,
                         !.brand = c.brand, !.model = c.model,
                         !.condition = c.condition,
                         !.condition_confidence = c.condition_confidence,
                         !.status = IF c.condition = "unknown"
                                    THEN "needs_condition" ELSE @]

\* the price lookup is issued for a classified listing of known condition
\* with a non-empty search term
NeedsLookupAnyCondition(classification) ==
    /\ classification # None
    /\ BuildSearchTerm(Val(classification)) # <<>>

NeedsLookup(classification) ==
    /\ classification # None
    /\ Val(classification).condition # "unknown"
    /\ BuildSearchTerm(Val(classification)) # <<>>

Priced(deal, pricing) ==
    IF pricing = None THEN deal
    ELSE LET market_value == Some(Val(pricing).avg_price)
         IN [deal EXCEPT !.market_value = market_value,
                         !.ebay_sold_data = pricing,
                         !.estimated_profit =
                             calculate_estimated_profit(deal.asking_price, market_value, None, 0)]

ShouldNotifyWhenPriced(deal, pricing) == pricing # None

ShouldNotify(deal, pricing) ==
    pricing # None /\ is_profitable_deal(deal.asking_price, deal.market_value, None)

SourceLower(source) == IF source = "eBay" THEN "ebay" ELSE source

NeedsPickupCheck(deal) ==
    /\ deal.source # Null
    /\ SourceLower(deal.source) = "ebay"
    /\ (deal.distance_miles = None \/ Val(deal.distance_miles) <= LOCAL_RADIUS_MILES)

\* routers/deals.py, update_condition: the price status of a quote, from the
\* number of samples and the spread of the prices (cents)
DataQuality(pricing) ==
    LET price_range == IF pricing.high_price # 0 /\ pricing.low_price # 0
                       THEN pricing.high_price - pricing.low_price ELSE 0
    IN IF pricing.num_sales >= 5 /\ price_range * 10 < pricing.avg_price * 3
       THEN "accurate"
       ELSE IF pricing.num_sales >= 3 THEN "similar_prices"
       ELSE "limited_data"

\* check_local_pickup_available: None, or a dict with count, items, search_term
PickupResults == {None, Some([count |-> 2])}

\* pickup_result and pickup_result.get("found")
PickupFound(pickup_result) ==
    /\ pickup_result # None
    /\ "found" \in DOMAIN Val(pickup_result)
    /\ Val(pickup_result).found

PickupChecked(deal, pickup_result) ==
    IF NeedsPickupCheck(deal)
    THEN [deal EXCEPT !.local_pickup_available = Some(PickupFound(pickup_result))]
    ELSE deal

\* NotificationService.send_deal_notification / send_needs_review_notification:
\* one delivery to one token; returns ok (TRUE) or DeliveryFailed (FALSE)
send_notification(token, failing) == token \notin failing

\* for token in tokens: await notification_service.send_...(token=token, ...)
RECURSIVE FanOutUntilFailure(_, _)
FanOutUntilFailure(tokens, failing) ==
    IF tokens = <<>> THEN [attempted |-> {}, delivered |-> {}]
    ELSE IF Head(tokens) \in failing THEN [attempted |-> {Head(tokens)}, delivered |-> {}]
    ELSE LET rest == FanOutUntilFailure(Tail(tokens), failing)
         IN [attempted |-> {Head(tokens)} \cup rest.attempted,
             delivered |-> {Head(tokens)} \cup rest.delivered]

RECURSIVE FanOut(_, _)
FanOut(tokens, failing) ==
    IF tokens = <<>> THEN [attempted |-> {}, delivered |-> {}]
    ELSE LET ok == send_notification(Head(tokens), failing)
             rest == FanOut(Tail(tokens), failing)
         IN [attempted |-> {Head(tokens)} \cup rest.attempted,
             delivered |-> (IF ok THEN {Head(tokens)} ELSE {}) \cup rest.delivered]

NoFanOut == [attempted |-> {}, delivered |-> {}]

MaxPlanLen == Attempts * 6 + 2 + 1

\* the marketplace answers the hit-th search of a call with good, the others
\* with bad (hit = 0: every search fails)
Oracle(hit, good, bad) == [i \in 1..MaxPlanLen |-> IF i = hit THEN good ELSE bad]

-----------------------------------------------------------------------------
(* State *)

VARIABLES
    price_cache,  \* ebay_lookup._price_cache: cache key -> quote
    calls,        \* the get_market_value calls made directly, oldest first
    calc,         \* the profit calculator's inputs and outputs
    geo,          \* the distance resolver's input and outputs
    now,          \* hours elapsed on the clock of the process
    db,           \* the committed Deal rows
    session,      \* the Deal rows the running tick has flushed, not committed
    pc,           \* "idle", or "loop" while process_new_emails runs
    raw_deals,    \* the batch of the running tick
    idx,          \* the position of the running tick in raw_deals
    ticks,        \* number of ticks started
    delivered,    \* <<token, url>> -> deal notifications delivered
    lastStep,     \* what the last step of the loop did
    lastTick,     \* how the last tick ended
    lastSweep,    \* what the last needs-review sweep did
    flips         \* the committed Flip rows

vars == <<price_cache, calls, calc, geo, now, db, session, pc, raw_deals, idx, ticks,
          delivered, lastStep, lastTick, lastSweep, flips>>

Urls == {l.listing_url : l \in Catalog}

NoStep == [kind |-> "none", url |-> Null, classified |-> FALSE,
           condition |-> Null, lookup |-> FALSE,
           auth |-> Null, token_calls |-> 0, searches |-> 0, priced |-> FALSE,
           cache_written |-> FALSE,
           notified |-> FALSE, attempted |-> {}, failed |-> {},
           pickup_listings |-> 0]
NoTick == [outcome |-> "none", batch |-> <<>>, raised_at |-> 0]
NoSweep == [count |-> 0, attempted |-> {}, failed |-> {}]
NoGeo == [location |-> None, op |-> "none", distance |-> None, within |-> FALSE]
NoCalc == [asking_price |-> None, market_value |-> None, fee_percentage |-> None,
           shipping_estimate |-> 0, min_profit |-> None, op |-> "none",
           profit |-> None, profitable |-> FALSE]

Init ==
    /\ price_cache = <<>>
    /\ calls = <<>>
    /\ calc = NoCalc
    /\ geo = NoGeo
    /\ now = 0
    /\ db = {}
    /\ session = {}
    /\ pc = "idle"
    /\ raw_deals = <<>>
    /\ idx = 0
    /\ ticks = 0
    /\ delivered = [k \in TokenSet \X Urls |-> 0]
    /\ lastStep = NoStep
    /\ lastTick = NoTick
    /\ lastSweep = NoSweep
    /\ flips = {}

-----------------------------------------------------------------------------
(* process_new_emails *)

FetchEscapes ==
    /\ pc = "idle"
    /\ ticks < MaxTicks
    /\ ticks' = ticks + 1
    /\ pc' = "crashed"
    /\ lastTick' = [outcome |-> "fetch_failed", batch |-> <<>>, raised_at |-> 0]
    /\ lastStep' = NoStep
    /\ UNCHANGED <<price_cache, calls, calc, geo, now, db, session, raw_deals, idx,
                   delivered, lastSweep,
                   flips>>

\* email_service.get_swoopa_emails raises: the except clause ends the tick
FetchFails ==
    /\ pc = "idle"
    /\ ticks < MaxTicks
    /\ ticks' = ticks + 1
    /\ lastTick' = [outcome |-> "fetch_failed", batch |-> <<>>, raised_at |-> 0]
    /\ lastStep' = NoStep
    /\ UNCHANGED <<price_cache, calls, calc, geo, now, db, session, pc, raw_deals, idx,
                   delivered, lastSweep,
                   flips>>

\* the tick fetches a batch and opens its session
TickStart ==
    /\ pc = "idle"
    /\ ticks < MaxTicks
    /\ \E batch \in Batches :
        /\ raw_deals' = batch
        /\ idx' = 1
        /\ session' = {}
        /\ pc' = "loop"
        /\ ticks' = ticks + 1
        /\ lastStep' = NoStep
        /\ lastTick' = [outcome |-> "running", batch |-> batch, raised_at |-> 0]
    /\ UNCHANGED <<price_cache, calls, calc, geo, now, db, delivered, lastSweep,
                   flips>>

\* What the environment can do to a price lookup made by the tick: the
\* credential exchange succeeds or not, and either every search fails or the
\* first one succeeds
TickAuth == {"ok", "exception"}
TickHits == {0, 1}
TickResponses == {RespAccurate}

LookupOutcomes(cache, search_term, condition) ==
    {[auth |-> auth,
      gmv |-> get_market_value(cache, search_term, condition, auth,
                               Oracle(hit, good, RespEmpty))] :
        auth \in TickAuth, hit \in TickHits, good \in TickResponses}

NoLookup == [auth |-> Null,
             gmv |-> [result |-> None, cache |-> <<>>, token_calls |-> 0,
                      searches |-> <<>>]]

Delivered(count, url, tokens) ==
    [k \in DOMAIN count |->
        IF k[2] = url /\ k[1] \in tokens THEN count[k] + 1 ELSE count[k]]

\* one pass of the loop body for raw_deals[idx] that raises nothing
ProcessListing ==
    /\ pc = "loop"
    /\ idx <= Len(raw_deals)
    /\ LET raw == raw_deals[idx]
           existing == ExistingDeals(db, session, raw.listing_url)
       IN /\ Cardinality(existing) <= 1
          /\ IF existing # {}
             THEN /\ lastStep' = [NoStep EXCEPT !.kind = "skipped", !.url = raw.listing_url]
                  /\ UNCHANGED <<price_cache, session, delivered,
                   flips>>
             ELSE \E classification \in ClassifyOutcomes :
                    LET deal0 == NewDeal(raw, Cardinality(db \cup session) + 1)
                        deal1 == Classified(deal0, classification)
                        lookup == NeedsLookup(classification)
                    IN \E outcome \in (IF lookup
                                       THEN LookupOutcomes(price_cache,
                                                BuildSearchTerm(Val(classification)),
                                                deal1.condition)
                                       ELSE {NoLookup}) :
                        LET gmv == outcome.gmv
                            pricing == gmv.result
                            deal2 == Priced(deal1, pricing)
                            notify == ShouldNotify(deal2, pricing)
                            deal3 == [deal2 EXCEPT !.notified_at = notify]
                        IN \E failing \in (IF notify THEN SUBSET TokenSet ELSE {{}}),
                              pickup_result \in (IF lookup /\ NeedsPickupCheck(deal3)
                                                 THEN PickupResults ELSE {None}) :
                            LET fan == IF notify THEN FanOut(DeviceTokens, failing)
                                       ELSE NoFanOut
                                deal4 == IF lookup THEN PickupChecked(deal3, pickup_result)
                                         ELSE deal3
                            IN /\ price_cache' = IF lookup THEN gmv.cache ELSE price_cache
                               /\ session' = session \cup {deal4}
                               /\ delivered' = Delivered(delivered, raw.listing_url,
                                                         fan.delivered)
                               /\ lastStep' = [kind |-> "processed",
                                               url |-> raw.listing_url,
                                               classified |-> classification # None,
                                               condition |-> deal4.condition,
                                               lookup |-> lookup,
                                               auth |-> outcome.auth,
                                               token_calls |-> gmv.token_calls,
                                               searches |-> Len(gmv.searches),
                                               priced |-> pricing # None,
                                               cache_written |->
                                                   lookup /\ gmv.cache # price_cache,
                                               notified |-> notify,
                                               attempted |-> fan.attempted,
                                               failed |-> fan.attempted \ fan.delivered,
                                               pickup_listings |->
                                                   IF pickup_result = None THEN 0
                                                   ELSE Val(pickup_result).count]
    /\ idx' = idx + 1
    /\ UNCHANGED <<calls, calc, geo, now, db, pc, raw_deals, ticks, lastTick, lastSweep,
                   flips>>

\* a database call of the loop body (the select, the flush) raises: control
\* leaves the loop for the except clause, the session is closed without a
\* commit and its rows are rolled back
ListingRaises ==
    /\ pc = "loop"
    /\ idx <= Len(raw_deals)
    /\ session' = {}
    /\ pc' = "idle"
    /\ lastTick' = [lastTick EXCEPT !.outcome = "aborted", !.raised_at = idx]
    /\ UNCHANGED <<price_cache, calls, calc, geo, now, db, raw_deals, idx, ticks, delivered,
                   lastStep, lastSweep,
                   flips>>

\* await db.commit() after the loop
TickCommit ==
    /\ pc = "loop"
    /\ idx > Len(raw_deals)
    /\ db' = db \cup session
    /\ session' = {}
    /\ pc' = "idle"
    /\ lastTick' = [lastTick EXCEPT !.outcome = "committed"]
    /\ UNCHANGED <<price_cache, calls, calc, geo, now, raw_deals, idx, ticks, delivered,
                   lastStep, lastSweep,
                   flips>>

\* check_needs_review: runs on its own interval, with its own session
NeedsReview(rows) == {d \in rows : d.condition = "unknown"}

check_needs_review ==
    /\ \E failing \in SUBSET TokenSet :
        LET count == Cardinality(NeedsReview(db))
            fan == IF count > 0 THEN FanOut(DeviceTokens, failing) ELSE NoFanOut
        IN lastSweep' = [count |-> count, attempted |-> fan.attempted,
                         failed |-> fan.attempted \ fan.delivered]
    /\ UNCHANGED <<price_cache, calls, calc, geo, now, db, session, pc, raw_deals, idx, ticks,
                   delivered, lastStep, lastTick,
                   flips>>

Next ==
    \/ FetchFails
    \/ TickStart
    \/ ProcessListing
    \/ ListingRaises
    \/ TickCommit
    \/ check_needs_review

Spec == Init /\ [][Next]_vars

-----------------------------------------------------------------------------
(* routers/deals.py: the user acts on stored deals while the scheduler runs *)

\* POST /deals/{deal_id}/dismiss
dismiss_deal ==
    /\ \E deal \in db :
        /\ deal.status # "dismissed"
        /\ db' = (db \ {deal}) \cup {[deal EXCEPT !.status = "dismissed"]}
    /\ UNCHANGED <<price_cache, calls, calc, geo, now, session, pc, raw_deals, idx,
                   ticks, delivered, lastStep, lastTick, lastSweep,
                   flips>>

NextReview == Next \/ dismiss_deal

SpecReview == Init /\ [][NextReview]_vars

-----------------------------------------------------------------------------
(* routers/deals.py: the purchase, dismiss, condition and market value routes
   called in any order on a Deal row a tick has stored *)

MaxFlips == 2

\* the rows a tick stores for listing L1 when its price lookup finds nothing
StoredDeals ==
    {IF NeedsLookup(classification)
     THEN PickupChecked(Classified(NewDeal(L1, 1), classification), None)
     ELSE Classified(NewDeal(L1, 1), classification) :
        classification \in ClassifyOutcomes}

InitPurchase ==
    /\ db \in {{deal} : deal \in StoredDeals}
    /\ price_cache = <<>>
    /\ calls = <<>>
    /\ calc = NoCalc
    /\ geo = NoGeo
    /\ now = 0
    /\ session = {}
    /\ pc = "idle"
    /\ raw_deals = <<>>
    /\ idx = 0
    /\ ticks = 0
    /\ delivered = [k \in TokenSet \X Urls |-> 0]
    /\ lastStep = NoStep
    /\ lastTick = NoTick
    /\ lastSweep = NoSweep
    /\ flips = {}

BuyPrices == {38000}

\* POST /deals/{deal_id}/purchase: refused with 400 for a Deal whose status
\* is "purchased", else a Flip is added and the status becomes "purchased"
purchase_deal ==
    /\ Cardinality(flips) < MaxFlips
    /\ \E deal \in db, buy_price \in BuyPrices :
        /\ deal.status # "purchased"
        /\ flips' = flips \cup {[id |-> Cardinality(flips) + 1, deal_id |-> deal.id,
                                  buy_price |-> buy_price, status |-> "active"]}
        /\ db' = (db \ {deal}) \cup {[deal EXCEPT !.status = "purchased"]}
    /\ UNCHANGED <<price_cache, calls, calc, geo, now, session, pc, raw_deals, idx,
                   ticks, delivered, lastStep, lastTick, lastSweep>>

UserConditions == {"new", "used", "needs_repair"}

\* the pricing branch of update_condition; no model of the catalog is one of
\* the test products, so the mock price branch is never taken
Repriced(deal, pricing) ==
    IF ~(Truthy(deal.model) \/ Truthy(deal.subcategory))
    THEN [deal EXCEPT !.price_status = "no_data",
                      !.price_note = "Insufficient product info for lookup"]
    ELSE IF pricing = None
    THEN [deal EXCEPT !.price_status = "no_data",
                      !.price_note = "Could not find market prices"]
    ELSE [Priced(deal, pricing) EXCEPT
             !.price_status = DataQuality(Val(pricing)),
             !.price_note = DataQuality(Val(pricing))]

\* POST /deals/{deal_id}/condition
update_condition ==
    /\ \E deal \in db, condition \in UserConditions :
        LET deal1 == [deal EXCEPT !.condition = condition,
                                  !.condition_confidence = "user_confirmed",
                                  !.status = "new"]
            lookup == Truthy(deal1.model) \/ Truthy(deal1.subcategory)
        IN \E outcome \in (IF lookup
                            THEN LookupOutcomes(price_cache, BuildSearchTerm(deal1),
                                                condition)
                            ELSE {NoLookup}) :
            /\ price_cache' = IF lookup THEN outcome.gmv.cache ELSE price_cache
            /\ db' = (db \ {deal}) \cup {Repriced(deal1, outcome.gmv.result)}
            /\ db' # db
    /\ UNCHANGED <<calls, calc, geo, now, session, pc, raw_deals, idx, ticks,
                   delivered, lastStep, lastTick, lastSweep, flips>>

UserMarketValues == {50000}

\* POST /deals/{deal_id}/market-value
update_market_value ==
    /\ \E deal \in db, market_value \in UserMarketValues :
        /\ db' = (db \ {deal}) \cup
                {[deal EXCEPT !.market_value = Some(market_value),
                              !.estimated_profit =
                                  calculate_estimated_profit(deal.asking_price,
                                      Some(market_value), None, 0),
                              !.price_status = "user_set",
                              !.price_note = "Manually entered by user"]}
        /\ db' # db
    /\ UNCHANGED <<price_cache, calls, calc, geo, now, session, pc, raw_deals, idx,
                   ticks, delivered, lastStep, lastTick, lastSweep, flips>>

NextPurchase == purchase_deal \/ dismiss_deal \/ update_condition \/ update_market_value

SpecPurchase == InitPurchase /\ [][NextPurchase]_vars

-----------------------------------------------------------------------------
(* get_market_value called directly, one call after the other *)

TermParen == <<"sony", SP, "a7", SP, "(", "kit", ")">>
TermA7 == <<"sony", SP, "a7">>
LookupTerms == {TermParen, TermA7}
LookupConditions == {"used", "new"}

LookupResponses == {RespAccurate, RespLimited}

\* The marketplace behaviours that matter to one call: none when the call
\* issues no search, else which search of the plan succeeds first
LookupOracles(cache, search_term, condition, auth) ==
    IF CacheHit(cache, CacheKey(search_term, condition))
         \/ get_ebay_access_token(auth) = None
    THEN {Oracle(0, RespEmpty, RespEmpty)}
    ELSE {Oracle(hit, good, bad) :
            hit \in 0..Len(SearchPlan(search_term, condition)),
            good \in LookupResponses, bad \in BadResponses}

\* the first search of a call the marketplace answers with priced listings
\* (0: none)
FirstGood(oracle) ==
    IF \A i \in DOMAIN oracle : oracle[i] \in BadResponses THEN 0
    ELSE CHOOSE i \in DOMAIN oracle :
            /\ oracle[i] \in GoodResponses
            /\ \A j \in 1..(i - 1) : oracle[j] \in BadResponses

LookupAmong(terms) ==
    /\ Len(calls) < MaxCalls
    /\ \E search_term \in terms, condition \in LookupConditions,
          auth \in AuthOutcomes :
        \E oracle \in LookupOracles(price_cache, search_term, condition, auth) :
            LET r == get_market_value(price_cache, search_term, condition, auth, oracle)
            IN /\ price_cache' = r.cache
               /\ calls' = Append(calls, [search_term |-> search_term,
                                          condition |-> condition,
                                          at |-> now,
                                          authorized |->
                                              /\ r.token_calls = 1
                                              /\ get_ebay_access_token(auth) # None,
                                          token_calls |-> r.token_calls,
                                          searches |-> r.searches,
                                          all_failed |->
                                              \A i \in DOMAIN oracle :
                                                  oracle[i] \in BadResponses,
                                          first_good |-> FirstGood(oracle),
                                          cache_written |-> r.cache # price_cache,
                                          result |-> r.result])
    /\ UNCHANGED <<calc, geo, now, db, session, pc, raw_deals, idx, ticks, delivered,
                   lastStep, lastTick, lastSweep,
                   flips>>

Lookup == LookupAmong(LookupTerms)

NextLookup == Lookup

SpecLookup == Init /\ [][NextLookup]_vars

-----------------------------------------------------------------------------
(* get_market_value called with differently spelled search terms *)

TermA7Upper == <<"SONY", SP, "a7">>
TermA7Spaced == <<"sony", SP, SP, "a7">>
TermA7Padded == <<SP, "sony", SP, "a7">>
SpelledTerms == {TermA7, TermA7Upper, TermA7Spaced, TermA7Padded}

LookupSpelled == LookupAmong(SpelledTerms)

NextLookupKeys == LookupSpelled

SpecLookupKeys == Init /\ [][NextLookupKeys]_vars

-----------------------------------------------------------------------------
(* get_market_value_with_local called next to get_market_value *)

\* market_result["local_pickup"] = local_result: item assignment on a dict
WithLocalPickup(quote, local) ==
    [f \in DOMAIN quote \cup {"local_pickup"} |->
        IF f = "local_pickup" THEN local ELSE quote[f]]

\* The dict get_market_value returns is the one the cache holds, so the
\* assignment changes the cached entry too
\* market_result: what the get_market_value task returned, local: what the
\* check_local_pickup_available task returned
get_market_value_with_local(market_result, key, local) ==
    IF market_result.result # None /\ local # None
    THEN [market_result EXCEPT
             !.result = Some(WithLocalPickup(Val(market_result.result), Val(local))),
             !.cache = [market_result.cache EXCEPT
                           ![key] = WithLocalPickup(Val(market_result.result), Val(local))]]
    ELSE market_result

LocalTerms == {TermA7, TermA7Upper}

LookupPlain == LookupAmong(LocalTerms)

LookupWithLocal ==
    /\ Len(calls) < MaxCalls
    /\ \E search_term \in LocalTerms, condition \in LookupConditions,
          auth \in AuthOutcomes, local \in PickupResults :
        \E oracle \in LookupOracles(price_cache, search_term, condition, auth) :
          \E market_result \in {get_market_value(price_cache, search_term, condition,
                                                auth, oracle)} :
          \E r \in {get_market_value_with_local(
                        market_result, CacheKey(search_term, condition), local)} :
               /\ price_cache' = r.cache
               /\ calls' = Append(calls, [search_term |-> search_term,
                                          condition |-> condition,
                                          at |-> now,
                                          authorized |->
                                              /\ r.token_calls = 1
                                              /\ get_ebay_access_token(auth) # None,
                                          token_calls |-> r.token_calls,
                                          searches |-> r.searches,
                                          all_failed |->
                                              \A i \in DOMAIN oracle :
                                                  oracle[i] \in BadResponses,
                                          first_good |-> FirstGood(oracle),
                                          cache_written |-> r.cache # price_cache,
                                          result |-> r.result])
    /\ UNCHANGED <<calc, geo, now, db, session, pc, raw_deals, idx, ticks, delivered,
                   lastStep, lastTick, lastSweep,
                   flips>>

NextLookupLocal == LookupPlain \/ LookupWithLocal

SpecLookupLocal == Init /\ [][NextLookupLocal]_vars

-----------------------------------------------------------------------------
(* get_market_value called directly while time passes *)

\* _cache_ttl = 3600 * 6 seconds, in hours
cache_ttl == 6

MaxHours == 7

\* time passes between two calls: one hour more than the TTL
Elapse ==
    /\ now + cache_ttl + 1 <= MaxHours
    /\ now' = now + cache_ttl + 1
    /\ UNCHANGED <<price_cache, calls, calc, geo, db, session, pc, raw_deals, idx,
                   ticks, delivered, lastStep, lastTick, lastSweep,
                   flips>>

NextLookupClock == Lookup \/ Elapse

SpecLookupClock == Init /\ [][NextLookupClock]_vars

-----------------------------------------------------------------------------
(* The profit calculator applied to bounded inputs *)

CalcPrices == {0, 5700, 10000, 15000, 35000, 35001, 40000, 49900, 49950}
CalcFees == {0, 10, 13}
CalcShipping == {0, 500}
CalcThresholds == {0, 3000, 3413}

Opt(S) == {None} \cup {Some(x) : x \in S}

InitProfit ==
    /\ calc \in [asking_price : Opt(CalcPrices), market_value : Opt(CalcPrices),
                 fee_percentage : Opt(CalcFees), shipping_estimate : CalcShipping,
                 min_profit : Opt(CalcThresholds), op : {"none"},
                 profit : {None}, profitable : {FALSE}]
    /\ price_cache = <<>>
    /\ calls = <<>>
    /\ geo = NoGeo
    /\ now = 0
    /\ db = {}
    /\ session = {}
    /\ pc = "idle"
    /\ raw_deals = <<>>
    /\ idx = 0
    /\ ticks = 0
    /\ delivered = [k \in TokenSet \X Urls |-> 0]
    /\ lastStep = NoStep
    /\ lastTick = NoTick
    /\ lastSweep = NoSweep
    /\ flips = {}

EstimateProfit ==
    /\ calc.op = "none"
    /\ calc' = [calc EXCEPT !.op = "estimate",
                    !.profit = calculate_estimated_profit(calc.asking_price,
                                   calc.market_value, calc.fee_percentage,
                                   calc.shipping_estimate)]
    /\ UNCHANGED <<price_cache, calls, geo, now, db, session, pc, raw_deals, idx, ticks,
                   delivered, lastStep, lastTick, lastSweep,
                   flips>>

CheckProfitable ==
    /\ calc.op = "none"
    /\ calc' = [calc EXCEPT !.op = "check",
                    !.profitable = is_profitable_deal(calc.asking_price,
                                       calc.market_value, calc.min_profit)]
    /\ UNCHANGED <<price_cache, calls, geo, now, db, session, pc, raw_deals, idx, ticks,
                   delivered, lastStep, lastTick, lastSweep,
                   flips>>

NextProfit == EstimateProfit \/ CheckProfitable

SpecProfit == InitProfit /\ [][NextProfit]_vars

-----------------------------------------------------------------------------
(* The distance resolver applied to bounded inputs, next to the tick *)

UpperAtom(a) ==
    CASE a = "cookeville" -> "Cookeville"
      [] a = "memphis" -> "Memphis"
      [] a = "asheville" -> "Asheville"
      [] a = "atlantis" -> "Atlantis"
      [] a = "tn" -> "TN"
      [] a = "nc" -> "NC"
      [] OTHER -> a

\* three gazetteer cities and one city the gazetteer does not have
LocationCities == {"cookeville", "memphis", "asheville", "atlantis"}

StateOf(city) == IF <<city>> \in DOMAIN CityState THEN CityState[<<city>>] ELSE "tn"

Cased(a) == {a, UpperAtom(a)}
Padded(s) == {s, <<SP>> \o s \o <<SP>>}

\* "Cookeville"
BareForms(city) == UNION {Padded(<<c>>) : c \in Cased(city)}
\* "Cookeville, TN"
CommaForms(city) ==
    UNION {Padded(<<c, ",", SP, st>>) : c \in Cased(city), st \in Cased(StateOf(city))}
\* "Cookeville TN"
SuffixForms(city) ==
    UNION {Padded(<<c, SP, st>>) : c \in Cased(city), st \in Cased(StateOf(city))}

FormsOf(city) == BareForms(city) \cup CommaForms(city) \cup SuffixForms(city)

LocationInputs ==
    {None, Some(<<>>)} \cup {Some(f) : f \in UNION {FormsOf(c) : c \in LocationCities}}

InitLocation ==
    /\ geo \in [location : LocationInputs, op : {"none"}, distance : {None},
                within : {FALSE}]
    /\ price_cache = <<>>
    /\ calls = <<>>
    /\ calc = NoCalc
    /\ now = 0
    /\ db = {}
    /\ session = {}
    /\ pc = "idle"
    /\ raw_deals = <<>>
    /\ idx = 0
    /\ ticks = 0
    /\ delivered = [k \in TokenSet \X Urls |-> 0]
    /\ lastStep = NoStep
    /\ lastTick = NoTick
    /\ lastSweep = NoSweep
    /\ flips = {}

ResolveDistance ==
    /\ geo.op = "none"
    /\ geo' = [geo EXCEPT !.op = "distance",
                          !.distance = calculate_distance_from_home(geo.location)]
    /\ UNCHANGED <<price_cache, calls, calc, now, db, session, pc, raw_deals, idx,
                   ticks, delivered, lastStep, lastTick, lastSweep,
                   flips>>

CheckPickupRange ==
    /\ geo.op = "none"
    /\ geo' = [geo EXCEPT !.op = "within",
                          !.within = is_within_pickup_range(geo.location)]
    /\ UNCHANGED <<price_cache, calls, calc, now, db, session, pc, raw_deals, idx,
                   ticks, delivered, lastStep, lastTick, lastSweep,
                   flips>>

\* the resolver is applied to any input; the tick runs beside it
NextLocation ==
    \/ ResolveDistance
    \/ CheckPickupRange
    \/ (geo = NoGeo /\ Next)

SpecLocation == InitLocation /\ [][NextLocation]_vars

-----------------------------------------------------------------------------
(* Properties *)

SameKey(a, b) == a.search_term = b.search_term /\ a.condition = b.condition

ConsecutiveCalls == {i \in 1..(Len(calls) - 1) : SameKey(calls[i], calls[i + 1])}

\* C1 as stated: two consecutive lookups for the same (search term,
\* condition) issue exactly one search call in total, and the second one
\* performs no credential exchange and no search.
C1_OneSearchInTotal ==
    \A i \in ConsecutiveCalls :
        /\ Len(calls[i].searches) + Len(calls[i + 1].searches) = 1
        /\ calls[i + 1].token_calls = 0
        /\ calls[i + 1].searches = <<>>

\* C1 amended: after a lookup that returned a quote, the next lookup for the
\* same (search term, condition) is answered from the cache: it returns that
\* quote and performs no credential exchange and no search; the two lookups
\* together issue exactly one search call when the first one was a cache miss
\* whose first search succeeded.
C1_SecondLookupFromCache ==
    \A i \in ConsecutiveCalls :
        calls[i].result # None =>
            /\ calls[i + 1].result = calls[i].result
            /\ calls[i + 1].token_calls = 0
            /\ calls[i + 1].searches = <<>>
            /\ (Len(calls[i].searches) = 1 =>
                    Len(calls[i].searches) + Len(calls[i + 1].searches) = 1)

C1_Witness ==
    \E i \in ConsecutiveCalls :
        /\ calls[i].result # None
        /\ calls[i].token_calls = 1
        /\ Len(calls[i].searches) = 1
        /\ calls[i + 1].result = calls[i].result

TwoWordTerm(search_term) == Join(FirstWords(Split(search_term), 2))

\* the positions of a call's searches that asked for the term q
SearchesOf(c, q) == {j \in 1..Len(c.searches) : c.searches[j].q = q}

\* every search of the call but the last one asked for another term than q,
\* and the last one asked for q under the condition filter and gave the result
OnlyTermWithResults(c, q) ==
    /\ c.result # None
    /\ c.searches # <<>>
    /\ c.searches[Len(c.searches)].q = q
    /\ c.searches[Len(c.searches)].filter = ConditionFilter(c.condition)
    /\ \A j \in 1..(Len(c.searches) - 1) : c.searches[j].q # q

\* C2: when only the two-word broadened term has results the quote is tagged
\* broad_match, and the two-word term is never searched before every listed
\* variation has been searched Attempts times under the condition filter.
C2_BroadMatchAfterAllVariations ==
    \A i \in 1..Len(calls) :
        LET c == calls[i]
            two == TwoWordTerm(c.search_term)
            variations == generate_search_variations(c.search_term)
        IN (Len(Split(c.search_term)) > 2 /\ OnlyTermWithResults(c, two)) =>
            /\ Val(c.result).broad_match
            /\ \A j \in SearchesOf(c, two) :
                 \A n \in 1..Len(variations) :
                    variations[n] # two =>
                        Cardinality({m \in 1..(j - 1) :
                                        /\ c.searches[m].q = variations[n]
                                        /\ c.searches[m].strategy = 1}) >= Attempts

\* C3: at most one persisted Deal per listing URL.
C3_OneDealPerUrl ==
    \A d1 \in db : \A d2 \in db : d1.listing_url = d2.listing_url => d1 = d2

HasRepeatedUrl(batch) ==
    \E i \in 1..Len(batch) : \E j \in 1..Len(batch) :
        i < j /\ batch[i].listing_url = batch[j].listing_url

C3_Witness ==
    /\ ticks = 2
    /\ lastTick.outcome = "committed"
    /\ HasRepeatedUrl(lastTick.batch)
    /\ lastStep.kind = "skipped"
    /\ \E d \in db : d.listing_url = lastStep.url

\* C4: each device receives at most one deal notification per listing URL.
C4_NotifiedAtMostOnce == \A k \in DOMAIN delivered : delivered[k] <= 1

\* C5: when one listing of a batch raises, every other listing of the batch
\* is persisted (a deal with its URL is committed).
C5_OthersPersisted ==
    lastTick.outcome = "aborted" =>
        \A i \in 1..Len(lastTick.batch) :
            i # lastTick.raised_at =>
                \E d \in db : d.listing_url = lastTick.batch[i].listing_url

\* C6: a persisted listing of known condition without a market value carries
\* price_status no_data and a price note.
C6_UnpricedIsNoData ==
    \A d \in db :
        (d.condition \notin {Null, "unknown"} /\ d.market_value = None) =>
            (d.price_status = "no_data" /\ d.price_note # Null)

\* C7: a listing classified with condition unknown gets status
\* needs_condition; no price lookup is issued for it, no market value or
\* estimated profit is set and no deal notification is sent; it is persisted
\* when the tick commits.
C7_UnknownConditionHalts ==
    /\ \A d \in db \cup session :
        d.condition = "unknown" =>
            /\ d.status = "needs_condition"
            /\ d.market_value = None
            /\ d.estimated_profit = None
            /\ d.ebay_sold_data = None
            /\ ~d.notified_at
    /\ (lastStep.kind = "processed" /\ lastStep.condition = "unknown") =>
            /\ ~lastStep.lookup
            /\ ~lastStep.notified
            /\ lastStep.attempted = {}
            /\ (lastTick.outcome \in {"running", "committed"} =>
                    \E d \in db \cup session :
                        /\ d.listing_url = lastStep.url
                        /\ d.status = "needs_condition")

C7_Witness ==
    /\ lastStep.kind = "processed"
    /\ lastStep.condition = "unknown"
    /\ lastTick.outcome = "committed"
    /\ \E d \in db : d.listing_url = lastStep.url /\ d.status = "needs_condition"

\* C8: a delivery failure for one token neither stops the fan-out (every
\* registered token is attempted, for a deal notification and for the
\* needs-review sweep) nor keeps the listing from being persisted.
C8_FailureDoesNotStopFanOut ==
    /\ lastStep.notified => lastStep.attempted = TokenSet
    /\ lastSweep.count > 0 => lastSweep.attempted = TokenSet
    /\ (lastStep.failed # {} /\ lastTick.outcome \in {"running", "committed"}) =>
            \E d \in db \cup session : d.listing_url = lastStep.url /\ d.notified_at
    /\ (lastStep.failed # {} /\ lastTick.outcome = "committed") =>
            \E d \in db : d.listing_url = lastStep.url /\ d.notified_at

C8_Witness ==
    /\ lastStep.failed = {DeviceTokens[1]}
    /\ lastStep.attempted = TokenSet
    /\ lastTick.outcome = "committed"
    /\ \E d \in db : d.listing_url = lastStep.url /\ d.notified_at
    /\ lastSweep.count > 0
    /\ DeviceTokens[1] \in lastSweep.failed

\* C9: calculate_estimated_profit is None exactly when a price is absent;
\* otherwise it is market - asking - market*fee/100 - shipping rounded to the
\* nearest cent, with fee 13 when none is given; (100, 150, fee 10) gives 35.00.
C9_EstimatedProfit ==
    calc.op = "estimate" =>
        /\ calc.profit = None <=> (calc.asking_price = None \/ calc.market_value = None)
        /\ calc.profit # None =>
            LET fee == IF calc.fee_percentage = None THEN 13 ELSE Val(calc.fee_percentage)
                exact == 100 * (Val(calc.market_value) - Val(calc.asking_price)
                                  - calc.shipping_estimate)
                           - Val(calc.market_value) * fee
            IN 2 * Abs(100 * Val(calc.profit) - exact) <= 100
        /\ (/\ calc.asking_price = Some(10000)
            /\ calc.market_value = Some(15000)
            /\ calc.fee_percentage = Some(10)
            /\ calc.shipping_estimate = 0) => calc.profit = Some(3500)

C9_Witness ==
    /\ calc.op = "estimate"
    /\ calc.asking_price = Some(10000)
    /\ calc.market_value = Some(15000)
    /\ calc.fee_percentage = Some(10)
    /\ calc.profit = Some(3500)

\* C10: is_profitable_deal is false when the estimated profit is absent, and
\* otherwise true exactly when the estimated profit (fee 13) is at least the
\* threshold (30.00 when none is given); (400, 499, 30) is true with profit
\* 34.13 and (400, 350) is false.
C10_IsProfitable ==
    calc.op = "check" =>
        LET profit == calculate_estimated_profit(calc.asking_price, calc.market_value,
                                                 Some(13), 0)
            threshold == IF calc.min_profit = None THEN 3000 ELSE Val(calc.min_profit)
        IN /\ profit = None => ~calc.profitable
           /\ profit # None => (calc.profitable <=> Val(profit) >= threshold)
           /\ (calc.asking_price = Some(40000) /\ calc.market_value = Some(49900)) =>
                (profit = Some(3413) /\ (calc.min_profit = Some(3000) => calc.profitable))
           /\ (calc.asking_price = Some(40000) /\ calc.market_value = Some(35000)) =>
                ~calc.profitable

C10_Witness ==
    /\ calc.op = "check"
    /\ calc.asking_price = Some(40000)
    /\ calc.market_value = Some(49900)
    /\ calc.min_profit = Some(3413)
    /\ calc.profitable

\* C11: for every gazetteer city, the bare name, the name followed by a
\* comma and its state, and the name followed by its two-letter state
\* abbreviation (any letter case, surrounding whitespace) resolve to the
\* distance of that city's gazetteer entry
C11_SuffixInvariance ==
    \A c \in LocationCities :
        (/\ <<c>> \in DOMAIN CityMiles
         /\ geo.op = "distance"
         /\ geo.location # None
         /\ Val(geo.location) \in FormsOf(c))
        => geo.distance = Some(CityMiles[<<c>>])

Unresolved(location) == parse_location(location) = None

\* C12: for an unresolved or empty location the distance is None and the
\* pickup-range check is false; for a resolved one the check is true exactly
\* when the distance is at most 100 miles; in the tick a listing with an
\* unresolved location is stored without a distance and the loop body runs
\* on for it (classification, tick still running)
C12_UnresolvedLocation ==
    /\ (geo.op = "distance" /\ Unresolved(geo.location)) => geo.distance = None
    /\ (geo.op = "within" /\ Unresolved(geo.location)) => ~geo.within
    /\ (geo.op = "within" /\ ~Unresolved(geo.location)) =>
          (geo.within <=>
             CityMiles[Val(parse_location(geo.location))] <= LOCAL_RADIUS_MILES)
    /\ \A d \in db \cup session : Unresolved(d.location) => d.distance_miles = None
    /\ (pc = "loop" /\ lastStep.kind = "processed") =>
          /\ lastTick.outcome = "running"
          /\ \E d \in session :
                /\ d.listing_url = lastStep.url
                /\ d.condition = lastStep.condition

\* the tick has priced a listing whose location is not in the gazetteer, and
\* the pickup-range check has been applied to an empty location
C12_Witness ==
    /\ geo.op = "within"
    /\ geo.location = None
    /\ pc = "loop"
    /\ lastStep.kind = "processed"
    /\ lastStep.lookup
    /\ \E d \in session :
          /\ d.listing_url = lastStep.url
          /\ d.location = Some(<<"Atlantis">>)
          /\ d.distance_miles = None
          /\ d.market_value # None

\* the call that wrote the cache entry a later call for the same key finds
WroteEntry(c) == c.result # None /\ c.token_calls = 1

\* C13: a lookup made more than 6 hours after the cache entry for its key
\* was created is not answered from the cache but searches afresh
C13_EntryExpiresAfterTtl ==
    \A i \in 1..Len(calls) : \A j \in (i + 1)..Len(calls) :
        (/\ SameKey(calls[i], calls[j])
         /\ WroteEntry(calls[i])
         /\ calls[j].at - calls[i].at > cache_ttl)
        => calls[j].searches # <<>>

\* C14: on a cache miss with no access credential the lookup issues no
\* search, returns no quote and leaves the cache as it was; the tick stays
\* in its loop with the listing stored
C14_AuthFailureEndsLookup ==
    (/\ lastStep.kind = "processed"
     /\ lastStep.lookup
     /\ lastStep.token_calls = 1
     /\ lastStep.auth # "ok")
    => /\ lastStep.searches = 0
       /\ ~lastStep.priced
       /\ ~lastStep.cache_written
       /\ ~lastStep.notified
       /\ pc = "loop" =>
            /\ lastTick.outcome = "running"
            /\ \E d \in session : d.listing_url = lastStep.url /\ d.market_value = None

\* the credential exchange failed for the first listing of a batch of two
\* and the loop is about to process the second
C14_Witness ==
    /\ lastStep.kind = "processed"
    /\ lastStep.lookup
    /\ lastStep.token_calls = 1
    /\ lastStep.auth = "exception"
    /\ pc = "loop"
    /\ idx = 2
    /\ Len(raw_deals) = 2

\* a cache miss with a credential, for which the marketplace answers every
\* search of the call with a failure
AllSearchesFailed(c) ==
    /\ c.authorized
    /\ c.all_failed

\* C15: when every search of every strategy fails, get_market_value
\* returns None and writes no cache entry
C15_AllFailedIsNotFound ==
    \A i \in 1..Len(calls) :
        AllSearchesFailed(calls[i]) =>
            /\ calls[i].result = None
            /\ ~calls[i].cache_written
            /\ calls[i].searches = SearchPlan(calls[i].search_term, calls[i].condition)

\* a call exhausted the three strategies without an answer
C15_Witness ==
    \E i \in 1..Len(calls) :
        /\ AllSearchesFailed(calls[i])
        /\ calls[i].search_term = TermParen
        /\ \E n \in 1..Len(calls[i].searches) : calls[i].searches[n].strategy = 3

\* C16: a stored listing that has a quote has the price status its quote's
\* shape gives: accurate, similar_prices or limited_data
C16_PriceStatusFromQuote ==
    \A d \in db \cup session :
        d.ebay_sold_data # None => d.price_status = DataQuality(Val(d.ebay_sold_data))

\* C17: a tick whose fetch fails persists nothing, looks up no price and
\* notifies nobody, and leaves the scheduler idle for the next tick
C17_FetchFailureAbortsTick ==
    [][(ticks' = ticks + 1 /\ lastTick'.outcome = "fetch_failed")
         => /\ db' = db
            /\ session' = {}
            /\ price_cache' = price_cache
            /\ delivered' = delivered
            /\ lastStep' = NoStep
            /\ pc' = "idle"]_vars

\* the fetch of the first tick failed and a second tick can start
C17_Witness ==
    /\ lastTick.outcome = "fetch_failed"
    /\ ticks = 1
    /\ pc = "idle"
    /\ db = {}

\* the listings stuck in NeedsReview: status needs_condition (a completed
\* review sets the status back to new, a dismissal or purchase replaces it)
StuckInReview(rows) == {d \in rows : d.status = "needs_condition"}

\* C18: the sweep counts the listings stuck in NeedsReview; with a count
\* above 0 it notifies every device with that count, with a count of 0
\* it notifies nobody
C18_SweepCountsStuckListings ==
    [][check_needs_review =>
         LET count == Cardinality(StuckInReview(db))
         IN /\ lastSweep'.count = count
            /\ count > 0 => lastSweep'.attempted = TokenSet
            /\ count = 0 => lastSweep'.attempted = {}]_vars

\* C19: a listing whose classification failed is stored with its category,
\* brand, model and condition empty and its status left at the default, no
\* price lookup is made for it, and the loop goes on
C19_UnclassifiedIsStored ==
    (lastStep.kind = "processed" /\ ~lastStep.classified)
    => /\ ~lastStep.lookup
       /\ lastStep.token_calls = 0
       /\ lastStep.searches = 0
       /\ ~lastStep.notified
       /\ pc = "loop" =>
            /\ lastTick.outcome = "running"
            /\ \E d \in session :
                  /\ d.listing_url = lastStep.url
                  /\ d.category = Null
                  /\ d.subcategory = None
                  /\ d.brand = None
                  /\ d.model = None
                  /\ d.condition = Null
                  /\ d.status = "new"
                  /\ d.market_value = None

\* the classification of the first listing of a batch of two failed and the
\* loop is about to process the second
C19_Witness ==
    /\ lastStep.kind = "processed"
    /\ ~lastStep.classified
    /\ pc = "loop"
    /\ idx = 2
    /\ Len(raw_deals) = 2
    /\ \E d \in session : d.status = "new" /\ d.category = Null

\* term a is broader than term b: its words are a proper prefix of b's
Broader(a, b) ==
    LET wa == Split(a)
        wb == Split(b)
    IN Len(wa) < Len(wb) /\ SubSeq(wb, 1, Len(wa)) = wa

\* C20: within one call no search uses a narrower term than a search that
\* was issued (and failed) before it
C20_MonotonicBroadening ==
    \A i \in 1..Len(calls) :
        LET searches == calls[i].searches
        IN \A m \in 1..Len(searches) : \A n \in (m + 1)..Len(searches) :
             ~Broader(searches[m].q, searches[n].q)

FilteredPhase(c) == Attempts * Len(generate_search_variations(c.search_term))

\* the searches of a call that returned nothing
FailedSearches(c) ==
    {j \in 1..Len(c.searches) : j < Len(c.searches) \/ c.result = None}

\* C21: under the condition filter the variations are searched in list order,
\* each at most 3 times, sleeping 0.5s after the first failed attempt, 1.0s
\* after the second and not after the third; a variation is searched only
\* after the 3 attempts of the one before it failed, and the first successful
\* attempt ends the call with its result.
C21_FilteredRetries ==
    \A i \in 1..Len(calls) :
        LET c == calls[i]
            variations == generate_search_variations(c.search_term)
        IN c.authorized =>
            /\ \A j \in 1..Len(c.searches) :
                j <= 3 * Len(variations) =>
                    /\ c.searches[j].q = variations[((j - 1) \div 3) + 1]
                    /\ c.searches[j].filter = ConditionFilter(c.condition)
                    /\ c.searches[j].attempt = (j - 1) % 3
                    /\ j \in FailedSearches(c) =>
                         c.searches[j].backoff =
                            CASE c.searches[j].attempt = 0 -> 500
                              [] c.searches[j].attempt = 1 -> 1000
                              [] OTHER -> 0
            /\ IF c.first_good \in 1..(3 * Len(variations))
               THEN /\ Len(c.searches) = c.first_good
                    /\ c.result # None
                    /\ Val(c.result).search_term_used
                         = variations[((c.first_good - 1) \div 3) + 1]
               ELSE Len(c.searches) >= 3 * Len(variations)

C21_Witness ==
    \E i \in 1..Len(calls) :
        /\ calls[i].authorized
        /\ calls[i].first_good = 5
        /\ Len(calls[i].searches) = 5
        /\ calls[i].searches[4].backoff = 500
        /\ calls[i].result # None

\* the call's result came from its last search, issued with this filter
ResultUnder(c, filter) ==
    /\ c.result # None
    /\ c.searches # <<>>
    /\ c.searches[Len(c.searches)].filter = filter

\* the unfiltered searches of a call come after Attempts searches of every
\* variation and ask for the first two variations, once each, in order
UnfilteredAfterVariations(c) ==
    LET variations == generate_search_variations(c.search_term)
        n == 3 * Len(variations)
    IN \A j \in 1..Len(c.searches) :
        c.searches[j].filter = "NEW|USED" =>
            /\ j > n
            /\ j - n <= 2
            /\ j - n <= Len(variations)
            /\ c.searches[j].q = variations[j - n]
            /\ \A k \in 1..n : c.searches[k].filter = ConditionFilter(c.condition)

\* C22 as stated: unfiltered searches come only after every variation failed
\* all attempts under the condition filter, cover the first two variations
\* once each in order, and their result is tagged mixed-condition; a result
\* obtained under the condition filter carries neither tag.
C22_FilteredResultUntagged ==
    \A i \in 1..Len(calls) :
        LET c == calls[i]
        IN c.authorized =>
            /\ UnfilteredAfterVariations(c)
            /\ ResultUnder(c, "NEW|USED") => Val(c.result).condition_note
            /\ ResultUnder(c, ConditionFilter(c.condition)) =>
                 /\ ~Val(c.result).condition_note
                 /\ ~Val(c.result).broad_match

\* C22 amended: unfiltered searches come only after every variation failed
\* all attempts under the condition filter, cover the first two variations
\* once each in order, and their result is tagged mixed-condition and not
\* broad-match; a result obtained from a listed variation under the condition
\* filter carries neither tag, and the result of the final two-word search,
\* which also runs under the condition filter, carries the broad-match tag
\* and not the mixed-condition tag.
C22_VariationResultUntagged ==
    \A i \in 1..Len(calls) :
        LET c == calls[i]
        IN c.authorized =>
            /\ UnfilteredAfterVariations(c)
            /\ ResultUnder(c, "NEW|USED") =>
                 /\ Val(c.result).condition_note
                 /\ ~Val(c.result).broad_match
            /\ ResultUnder(c, ConditionFilter(c.condition)) =>
                 /\ ~Val(c.result).condition_note
                 /\ Val(c.result).broad_match = (Len(c.searches) > FilteredPhase(c))

C22_Witness ==
    \E i \in 1..Len(calls) :
        /\ calls[i].authorized
        /\ Len(calls[i].searches) = FilteredPhase(calls[i]) + 2
        /\ ResultUnder(calls[i], "NEW|USED")
        /\ Val(calls[i].result).condition_note

RequestKey(c) == <<c.search_term, c.condition>>

\* C23: when a lookup has returned a quote, from whichever strategy, the cache
\* holds exactly that quote with its tags under the key of the requested
\* (search term, condition), no entry exists under a key nobody requested,
\* and the next lookup of the same request returns the same quote.
C23_ReturnedQuoteIsCached ==
    /\ \A i \in 1..Len(calls) :
        calls[i].result # None =>
            /\ RequestKey(calls[i]) \in DOMAIN price_cache
            /\ price_cache[RequestKey(calls[i])] = Val(calls[i].result)
            /\ \A j \in (i + 1)..Len(calls) :
                 RequestKey(calls[j]) = RequestKey(calls[i]) =>
                    calls[j].result = calls[i].result
    /\ \A key \in DOMAIN price_cache :
        \E i \in 1..Len(calls) :
            calls[i].result # None /\ RequestKey(calls[i]) = key

C23_Witness ==
    \E i \in 1..Len(calls) :
        /\ calls[i].result # None
        /\ calls[i].cache_written
        /\ Val(calls[i].result).broad_match
        /\ Val(calls[i].result).search_term_used # calls[i].search_term
        /\ price_cache[RequestKey(calls[i])] = Val(calls[i].result)
        /\ <<Val(calls[i].result).search_term_used, calls[i].condition>>
             \notin DOMAIN price_cache

\* a search term in lower case, without surrounding and repeated spaces
NormalizedTerm(s) ==
    LET t == Join(Split(s))
    IN [i \in 1..Len(t) |-> IF t[i] = "SONY" THEN "sony" ELSE t[i]]

\* C24: two lookups with the same condition whose search terms differ only in
\* letter case or in surrounding or repeated whitespace share one cache
\* entry: after the first returned a quote, the second is a cache hit.
C24_NormalizedKeyShared ==
    \A i \in 1..Len(calls) : \A j \in (i + 1)..Len(calls) :
        (/\ NormalizedTerm(calls[i].search_term) = NormalizedTerm(calls[j].search_term)
         /\ calls[i].condition = calls[j].condition
         /\ calls[i].result # None) =>
            /\ calls[j].token_calls = 0
            /\ calls[j].searches = <<>>
            /\ calls[j].result = calls[i].result

\* C25: a call writes only the cache entry of its own (search term,
\* condition) key, and an entry that has been written is never modified or
\* removed by a later operation.
C25_EntriesIsolated ==
    [][/\ \A key \in DOMAIN price_cache :
            /\ key \in DOMAIN price_cache'
            /\ price_cache'[key] = price_cache[key]
       /\ Len(calls') > Len(calls) =>
            (DOMAIN price_cache' \ DOMAIN price_cache)
                \subseteq {RequestKey(calls'[Len(calls')])}]_vars

\* C26: a call issues at most 3 x (number of variations) + 2 + 1 searches,
\* and the variation list of its search term has at most 6 terms, starts
\* with the search term itself and holds no term twice.
C26_BoundedDistinctVariations ==
    \A i \in 1..Len(calls) :
        LET variations == generate_search_variations(calls[i].search_term)
        IN /\ Len(calls[i].searches) <= 3 * Len(variations) + 2 + 1
           /\ Len(variations) <= 6
           /\ variations[1] = calls[i].search_term
           /\ \A m \in 1..Len(variations) : \A n \in 1..Len(variations) :
                variations[m] = variations[n] => m = n

\* the Deal row the last loop pass of the tick stored
LastProcessed ==
    {d \in session \cup db :
        lastStep.kind = "processed" /\ d.listing_url = lastStep.url}

\* C27: the tick issues a price lookup only with a term made of classification
\* text: for a listing classified without model and without subcategory no
\* lookup is issued, so no placeholder term reaches the price engine.
C27_NoLookupWithoutModelText ==
    \A d \in LastProcessed :
        (lastStep.classified /\ ~Truthy(d.model) /\ ~Truthy(d.subcategory)) =>
            /\ ~lastStep.lookup
            /\ lastStep.token_calls = 0
            /\ lastStep.searches = 0
            /\ \A key \in DOMAIN price_cache : ~InSeq("None", key[1])

ProfitReachesThreshold(d) ==
    /\ d.market_value # None
    /\ d.estimated_profit # None
    /\ Val(d.estimated_profit) >= profit_threshold

\* C28: a Deal the tick stored with notified_at set has a known condition, a
\* market value and a stored estimated profit of at least the threshold;
\* conversely a priced Deal whose estimated profit reaches the threshold has
\* notified_at set, and the loop pass that priced it attempted a notification
\* for every device token.
C28_NotifiedIffProfitable ==
    /\ \A d \in db \cup session :
        /\ d.notified_at =>
            /\ d.condition \notin {Null, "unknown"}
            /\ ProfitReachesThreshold(d)
        /\ ProfitReachesThreshold(d) => d.notified_at
    /\ \A d \in LastProcessed :
        /\ lastStep.notified = d.notified_at
        /\ d.notified_at => lastStep.attempted = TokenSet
        /\ ~d.notified_at => lastStep.attempted = {}

C28_Witness ==
    /\ \E d \in db :
        /\ d.notified_at
        /\ d.condition = "used"
        /\ Val(d.estimated_profit) >= profit_threshold
        /\ d \in LastProcessed
        /\ lastStep.attempted = TokenSet
        /\ lastStep.failed # {}
    /\ \E d \in db : d.market_value # None /\ ~d.notified_at

FlipsOf(deal) == {f \in flips : f.deal_id = deal.id}

\* C29: whatever purchase, dismiss, condition-update and market-value-update
\* calls are made, at most one Flip exists for a Deal.
C29_AtMostOneFlipPerDeal ==
    \A deal \in db : Cardinality(FlipsOf(deal)) <= 1

\* C30: for an eBay-source listing of known condition whose distance is
\* unresolved or within 100 miles, the tick stores local_pickup_available as
\* true exactly when the local-pickup search returned at least one listing,
\* and as false when it returned none.
C30_PickupFlagFollowsSearch ==
    \A d \in LastProcessed :
        (/\ lastStep.classified
         /\ d.condition \notin {Null, "unknown"}
         /\ d.source # Null /\ SourceLower(d.source) = "ebay"
         /\ (d.distance_miles = None \/ Val(d.distance_miles) <= 100)) =>
            d.local_pickup_available = Some(lastStep.pickup_listings > 0)

====
